---- MODULE Spec2Model ----
(***************************************************************************)
(* A model of the OT-security partnership catalog (src/main.py and         *)
(* src/all_relation.py): the table loaders, the filter, the two graph      *)
(* builders and the render pass of the Streamlit scripts.                  *)
(*                                                                         *)
(* Values.  A cell of a loaded table is a string, or the float NaN that    *)
(* pandas puts where the CSV has no value.  NaN is written "NaN" here:     *)
(* read_csv turns that very text into a missing value, so no loaded cell   *)
(* is ever the string "NaN" and the two cannot be confused.                *)
(***************************************************************************)
EXTENDS Integers, Sequences, FiniteSets, TLC

VARIABLES
    call,     \* the running calls of a graph builder: arguments, Network, position, result
    tmp,      \* the files under /tmp the builders write and read back
    disk,     \* the CSV files, by path
    load,     \* a call of a loader: which one, and how it ended
    script,   \* the script the session runs: main.py or all_relation.py
    widgets,  \* the session's widget values, by key
    page,     \* the last render pass: the elements it emitted and how it ended
    rerun     \* a run of the script is due (the session opened, a widget changed)

buildVars == <<call, tmp>>
loadVars == <<disk, load>>
appVars == <<script, widgets, page, rerun>>
vars == <<call, tmp, disk, load, script, widgets, page, rerun>>

\* ------------------------------------------------------------------ bounds

MaxBuildRows == 2
MaxRaceRows == 1
MaxLoadRows == 1
MaxCellLen == 4
MaxAppRows == 2

\* ------------------------------------------------------------------ values

NaN == "NaN"

SeqUpTo(S, n) == UNION {[1..k -> S] : k \in 0..n}

Range(s) == {s[i] : i \in 1..Len(s)}

\* What an f-string puts for a cell: text as it is, the float NaN as "nan".
Fmt(v) == IF v = NaN THEN "nan" ELSE v

\* An element a script puts on the page: its kind (st.title is "title", ...),
\* the key of a widget, its text and its content (options, lines, a page).
Elem(kind, key, label, data) == [kind |-> kind, key |-> key, label |-> label, data |-> data]

Text(kind, label) == Elem(kind, "", label, <<>>)

\* ------------------------------------------------- pyvis.network.Network

\* Network(...): no nodes, no edges; exc records an exception raised by a
\* later call on the object (the calls that follow it are then never made).
NewNetwork(directed) ==
    [nodes |-> <<>>, edges |-> <<>>, directed |-> directed, exc |-> ""]

NodeIds(net) == {net.nodes[i].id : i \in 1..Len(net.nodes)}

\* A variant of add_node that appends a node even when its id is known.
add_node_always(net, n_id, style) ==
    IF net.exc # "" THEN net
    ELSE IF n_id = NaN THEN [net EXCEPT !.exc = "AssertionError"]
    ELSE [net EXCEPT !.nodes = Append(@, [id |-> n_id, label |-> n_id] @@ style)]

\* Network.add_node: the id must be a str or an int (a float NaN is neither);
\* a node whose id is already in the graph is left as it is.
add_node(net, n_id, style) ==
    IF net.exc # "" THEN net
    ELSE IF n_id = NaN THEN [net EXCEPT !.exc = "AssertionError"]
    ELSE IF n_id \in NodeIds(net) THEN net
    ELSE [net EXCEPT !.nodes = Append(@, [id |-> n_id, label |-> n_id] @@ style)]

EdgeExists(net, source, to) ==
    \E i \in 1..Len(net.edges) :
        \/ net.edges[i].from = source /\ net.edges[i].to = to
        \/ net.edges[i].from = to /\ net.edges[i].to = source

\* Network.add_edge: both ends must be nodes of the graph; in an undirected
\* Network an edge between two nodes that already have one is not added.
add_edge(net, source, to, title) ==
    IF net.exc # "" THEN net
    ELSE IF source \notin NodeIds(net) \/ to \notin NodeIds(net)
        THEN [net EXCEPT !.exc = "AssertionError"]
    ELSE IF ~net.directed /\ EdgeExists(net, source, to) THEN net
    ELSE [net EXCEPT !.edges = Append(@, [from |-> source, to |-> to, title |-> title])]

\* ----------------------------------------------------- the graph builders

FilterTypes == {"Security Provider", "Automation Company"}

\* A variant of PartnerCol that takes the partners from the center's own column.
PartnerColSame(filter_type) ==
    IF filter_type = "Security Provider" THEN "security_provider" ELSE "automation_company"

PartnerCol(filter_type) ==
    IF filter_type = "Security Provider" THEN "automation_company" ELSE "security_provider"

CenterCol(filter_type) ==
    IF filter_type = "Security Provider" THEN "security_provider" ELSE "automation_company"

EdgeTitle(row) ==
    <<"Solution: ", Fmt(row.marketed_solution), "<br>Type: ", Fmt(row.partnership_type)>>

CenterStyle == [color |-> "#ff4b4b", size |-> 30, shape |-> "dot", title |-> ""]
PartnerStyle == [color |-> "#97c2fc", size |-> 20, shape |-> "dot", title |-> ""]
AutomationStyle == [color |-> "#1f77b4", size |-> 25, shape |-> "box", title |-> "Automation Company"]
SecurityStyle == [color |-> "#2ca02c", size |-> 25, shape |-> "dot", title |-> "Security Provider"]

RECURSIVE AddPartners(_, _, _, _)
AddPartners(net, df, central_node_name, partner_col) ==
    IF df = <<>> THEN net
    ELSE LET row == Head(df)
             partner_name == row[partner_col]
             withNode == add_node(net, partner_name, PartnerStyle)
             withEdge == add_edge(withNode, central_node_name, partner_name, EdgeTitle(row))
         IN  AddPartners(withEdge, Tail(df), central_node_name, partner_col)

\* create_partnership_graph up to its try block: the Network it has built.
StarNetwork(df, central_node_name, filter_type) ==
    AddPartners(add_node(NewNetwork(FALSE), central_node_name, CenterStyle),
                df, central_node_name, PartnerCol(filter_type))

\* Series.unique(): the distinct values in order of first appearance.
RECURSIVE Unique(_)
Unique(s) ==
    IF s = <<>> THEN <<>>
    ELSE LET u == Unique(SubSeq(s, 1, Len(s) - 1))
         IN  IF s[Len(s)] \in Range(u) THEN u ELSE Append(u, s[Len(s)])

Column(df, col) == [i \in 1..Len(df) |-> df[i][col]]

RECURSIVE AddNodes(_, _, _)
AddNodes(net, ids, style) ==
    IF ids = <<>> THEN net ELSE AddNodes(add_node(net, Head(ids), style), Tail(ids), style)

RECURSIVE AddRowEdges(_, _)
AddRowEdges(net, df) ==
    IF df = <<>> THEN net
    ELSE AddRowEdges(add_edge(net, Head(df).automation_company, Head(df).security_provider,
                              EdgeTitle(Head(df))),
                     Tail(df))

\* create_full_bipartite_graph up to its try block.
BipartiteNetwork(df) ==
    LET automation_nodes == Unique(Column(df, "automation_company"))
        security_nodes == Unique(Column(df, "security_provider"))
    IN  AddRowEdges(AddNodes(AddNodes(NewNetwork(FALSE), automation_nodes, AutomationStyle),
                             security_nodes, SecurityStyle),
                    df)

\* The page save_graph writes: the nodes and edges of the Network.
Html(net) == [nodes |-> net.nodes, edges |-> net.edges]

StarFile == "/tmp/partnership_graph.html"
BipartiteFile == "/tmp/full_partnership_graph.html"
FileName(kind) == IF kind = "star" THEN StarFile ELSE BipartiteFile

NoFiles == [f \in {StarFile, BipartiteFile} |-> <<>>]

ErrorText(kind) ==
    IF kind = "star" THEN "Could not generate graph" ELSE "Could not generate full graph"

\* ------------------------------------------- a call of a builder, by steps

\* The loop of add_node / add_edge calls.  An assertion of the Network is
\* outside the try block and leaves the function.
Build(p) ==
    /\ call[p].pc = "build"
    /\ LET c == call[p]
           n == IF c.kind = "star"
                THEN StarNetwork(c.df, c.central_node_name, c.filter_type)
                ELSE BipartiteNetwork(c.df)
       IN  call' = [call EXCEPT ![p].net = n,
                                ![p].pc = IF n.exc # "" THEN "raised" ELSE "save"]
    /\ UNCHANGED tmp

\* net.save_graph(file_name)
SaveGraph(p) ==
    /\ call[p].pc = "save"
    /\ tmp' = [tmp EXCEPT ![FileName(call[p].kind)] = <<Html(call[p].net)>>]
    /\ call' = [call EXCEPT ![p].pc = "read"]

\* open(file_name).read() and the return
ReadBack(p) ==
    /\ call[p].pc = "read"
    /\ tmp[FileName(call[p].kind)] # <<>>
    /\ call' = [call EXCEPT ![p].ret = tmp[FileName(call[p].kind)], ![p].pc = "done"]
    /\ UNCHANGED tmp

\* except Exception: st.error(...); return None
EmitFails(p) ==
    /\ call[p].pc \in {"save", "read"}
    /\ call' = [call EXCEPT ![p].st = Append(@, Text("error", <<ErrorText(call[p].kind)>>)),
                            ![p].ret = <<>>,
                            ![p].pc = "done"]
    /\ UNCHANGED tmp

BuildNext ==
    /\ \/ \E p \in DOMAIN call : Build(p)
       \/ \E p \in DOMAIN call : SaveGraph(p)
       \/ \E p \in DOMAIN call : ReadBack(p)
       \/ \E p \in DOMAIN call : EmitFails(p)
    /\ UNCHANGED <<loadVars, appVars>>

\* ---------------------------------------------------- the table loaders

WATER_DATA_PATH == "Water_Utilities-focused_partnerships.csv"
ALL_DATA_PATH == "ot_partnerships_relations.csv"
SERVICE_DATA_PATH == "service_to_pera_and_regs.csv"
DATA_PATH == "/home/hossamido/Downloads/water partners/ot_partnerships_relations.csv"

Paths == {WATER_DATA_PATH, ALL_DATA_PATH, SERVICE_DATA_PATH, DATA_PATH}

\* A file is missing, unreadable as CSV, or holds rows of text cells.  The
\* service_tags cell of a row is its text as a sequence of tokens.
MissingFile == [state |-> "missing", rows |-> <<>>]
CorruptFile == [state |-> "corrupt", rows |-> <<>>]
CsvFile(rows) == [state |-> "ok", rows |-> rows]

\* The texts read_csv takes for a missing value (among them the empty cell).
NaTexts == {"", "N/A", "NaN"}

\* ---- Python values (the parsed tags): [t |-> type, v |-> content]

PyStr(chars) == [t |-> "str", v |-> chars]
PyInt == [t |-> "int", v |-> <<>>]
PyList(items) == [t |-> "list", v |-> items]
PyTuple(items) == [t |-> "tuple", v |-> items]
PySet(items) == [t |-> "set", v |-> items]
PyDict == [t |-> "dict", v |-> <<>>]
PyNaN == [t |-> "nan", v |-> <<>>]
PyText(tokens) == [t |-> "text", v |-> tokens]
PyRaise(exc) == [t |-> "raise", v |-> <<exc>>]

Tokens == {"[", "]", ",", "'a'", "1", "x", "{", "}"}

\* ---- ast.parse(text, mode='eval') on the token language

NoParse == [ok |-> FALSE, node |-> [k |-> "None"], elts |-> <<>>, rest |-> <<>>, comma |-> FALSE]

RECURSIVE StringRun(_)
StringRun(t) == IF t # <<>> /\ Head(t) = "'a'" THEN 1 + StringRun(Tail(t)) ELSE 0

RECURSIVE ParseAtom(_), ParseElts(_, _)
\* One atom: adjacent string literals (one string), a number, a name, a list
\* display, a set display or the empty dict.
ParseAtom(t) ==
    IF t = <<>> THEN NoParse
    ELSE CASE Head(t) = "'a'" ->
                LET n == StringRun(t)
                IN  [NoParse EXCEPT !.ok = TRUE,
                                    !.node = [k |-> "Constant", v |-> PyStr([i \in 1..n |-> "a"])],
                                    !.rest = SubSeq(t, n + 1, Len(t))]
           [] Head(t) = "1" ->
                [NoParse EXCEPT !.ok = TRUE, !.node = [k |-> "Constant", v |-> PyInt],
                                !.rest = Tail(t)]
           [] Head(t) = "x" ->
                [NoParse EXCEPT !.ok = TRUE, !.node = [k |-> "Name", v |-> PyInt],
                                !.rest = Tail(t)]
           [] Head(t) \in {"[", "{"} ->
                LET close == IF Head(t) = "[" THEN "]" ELSE "}"
                    kind == IF Head(t) = "[" THEN "List" ELSE "Set"
                IN  IF Len(t) >= 2 /\ t[2] = close
                    THEN [NoParse EXCEPT !.ok = TRUE,
                                         !.node = IF kind = "List" THEN [k |-> "List", v |-> <<>>]
                                                  ELSE [k |-> "Dict", v |-> <<>>],
                                         !.rest = SubSeq(t, 3, Len(t))]
                    ELSE LET r == ParseElts(Tail(t), <<>>)
                         IN  IF r.ok /\ r.rest # <<>> /\ Head(r.rest) = close
                             THEN [NoParse EXCEPT !.ok = TRUE,
                                                  !.node = [k |-> kind, v |-> r.elts],
                                                  !.rest = Tail(r.rest)]
                             ELSE NoParse
           [] OTHER -> NoParse

\* expression (',' expression)* [',']
ParseElts(t, acc) ==
    LET a == ParseAtom(t)
    IN  IF ~a.ok THEN NoParse
        ELSE LET got == Append(acc, a.node)
             IN  IF a.rest # <<>> /\ Head(a.rest) = ","
                 THEN LET after == Tail(a.rest)
                      IN  IF after = <<>> \/ Head(after) \in {"]", "}"}
                          THEN [NoParse EXCEPT !.ok = TRUE, !.elts = got, !.rest = after,
                                               !.comma = TRUE]
                          ELSE LET r == ParseElts(after, got)
                               IN  IF r.ok THEN [r EXCEPT !.comma = TRUE] ELSE NoParse
                 ELSE [NoParse EXCEPT !.ok = TRUE, !.elts = got, !.rest = a.rest]

\* The expression of a whole text; a comma at the top makes it a tuple.
ParseEval(t) ==
    LET r == ParseElts(t, <<>>)
    IN  IF r.ok /\ r.rest = <<>>
        THEN [NoParse EXCEPT !.ok = TRUE,
                             !.node = IF r.comma THEN [k |-> "Tuple", v |-> r.elts] ELSE r.elts[1]]
        ELSE NoParse

\* ---- ast.literal_eval

Hashable(val) == val.t \in {"str", "int", "tuple"}

IsRaise(val) == val.t = "raise"

\* The elements of a display, converted from left to right; a set hashes each
\* element as it gets it.  The first failure is the result.
RECURSIVE ConvertElts(_, _, _), Convert(_)
ConvertElts(elts, acc, hashing) ==
    IF elts = <<>> THEN PyList(acc)
    ELSE LET val == Convert(Head(elts))
         IN  IF IsRaise(val) THEN val
             ELSE IF hashing /\ ~Hashable(val) THEN PyRaise("TypeError")
             ELSE ConvertElts(Tail(elts), Append(acc, val), hashing)

Convert(node) ==
    CASE node.k = "Constant" -> node.v
      [] node.k = "Name" -> PyRaise("ValueError")
      [] node.k = "Dict" -> PyDict
      [] node.k = "List" -> ConvertElts(node.v, <<>>, FALSE)
      [] node.k = "Tuple" ->
            LET r == ConvertElts(node.v, <<>>, FALSE)
            IN  IF IsRaise(r) THEN r ELSE PyTuple(r.v)
      [] node.k = "Set" ->
            LET r == ConvertElts(node.v, <<>>, TRUE)
            IN  IF IsRaise(r) THEN r ELSE PySet(Unique(r.v))

\* literal_eval of a cell: a str is parsed and converted; any other object
\* (a number of a numeric column) is a malformed node.
literal_eval(cell) ==
    IF cell.t # "text" THEN PyRaise("ValueError")
    ELSE LET r == ParseEval(cell.v)
         IN  IF ~r.ok THEN PyRaise("SyntaxError") ELSE Convert(r.node)

\* load_data.parse_tags
parse_tags(tags_str) ==
    IF tags_str.t = "nan" THEN PyList(<<>>)
    ELSE LET val == literal_eval(tags_str)
         IN  IF IsRaise(val) /\ val.v[1] \in {"ValueError", "SyntaxError"}
             THEN PyList(<<>>) ELSE val

\* ---- pd.read_csv

\* A column of which every value present is a number is read as numbers.
NumericColumn(cells) ==
    /\ \E i \in 1..Len(cells) : cells[i] # <<>>
    /\ \A i \in 1..Len(cells) : cells[i] \in {<<>>, <<"1">>}

ReadCell(rows, i, col) ==
    IF col = "service_tags"
    THEN IF rows[i][col] = <<>> THEN PyNaN
         ELSE IF NumericColumn([j \in 1..Len(rows) |-> rows[j][col]]) THEN PyInt
         ELSE PyText(rows[i][col])
    ELSE IF rows[i][col] \in NaTexts THEN NaN ELSE rows[i][col]

\* The rows as read: with index_col=0 the leading (unnamed) column is the
\* index, not a column of the frame.
read_csv(rows, index_col) ==
    [i \in 1..Len(rows) |->
        [col \in (IF index_col THEN DOMAIN rows[i] \ {"Unnamed: 0"} ELSE DOMAIN rows[i])
            |-> ReadCell(rows, i, col)]]

\* df.fillna('Not specified', inplace=True)
fillna(df) ==
    [i \in 1..Len(df) |->
        [col \in DOMAIN df[i] |-> IF df[i][col] = NaN THEN "Not specified" ELSE df[i][col]]]

\* ---- the loaders: how a call ends
\*   returned: with the frame;  stopped: st.error and st.stop();
\*   raised: an exception nobody in the loader catches

Returned(df) == [end |-> "returned", df |-> df, st |-> <<>>, exc |-> ""]

\* A variant of Stopped without the st.stop(): the error is shown and the
\* script goes on with an empty frame.
StoppedGoesOn(text) == [end |-> "returned", df |-> <<>>, st |-> <<Text("error", text)>>, exc |-> ""]

Stopped(text) == [end |-> "stopped", df |-> <<>>, st |-> <<Text("error", text)>>, exc |-> ""]
Raised(exc) == [end |-> "raised", df |-> <<>>, st |-> <<>>, exc |-> exc]

NotFoundText(file_path) == <<"Error: The file was not found at ", file_path>>
LoadErrorText == <<"An error occurred while loading the data: ", "ParserError">>

ApplyParseTags(df) ==
    [i \in 1..Len(df) |-> [df[i] EXCEPT !["service_tags"] = parse_tags(@)]]

\* main.load_data
main_load_data(file, file_path, is_water_data) ==
    IF file.state = "missing" THEN Stopped(NotFoundText(file_path))
    ELSE IF file.state = "corrupt" THEN Stopped(LoadErrorText)
    ELSE LET df == read_csv(file.rows, is_water_data)
         IN  IF is_water_data
             THEN LET parsed == ApplyParseTags(df)
                  IN  IF \E i \in 1..Len(parsed) : IsRaise(parsed[i].service_tags)
                      THEN Raised("TypeError")
                      ELSE Returned(parsed)
             ELSE Returned(fillna(df))

\* main.load_service_data
load_service_data(file, file_path) ==
    IF file.state = "missing" THEN Stopped(NotFoundText(file_path))
    ELSE IF file.state = "corrupt" THEN Raised("ParserError")
    ELSE Returned(fillna(read_csv(file.rows, FALSE)))

\* all_relation.load_data
all_relation_load_data(file) ==
    IF file.state = "missing" THEN Stopped(NotFoundText(DATA_PATH))
    ELSE IF file.state = "corrupt" THEN Raised("ParserError")
    ELSE Returned(fillna(read_csv(file.rows, FALSE)))

Pending == [end |-> "pending", df |-> <<>>, st |-> <<>>, exc |-> ""]

LoadWater ==
    /\ load.loader = "water" /\ load.out.end = "pending"
    /\ load' = [load EXCEPT !.out = main_load_data(disk[WATER_DATA_PATH], WATER_DATA_PATH, TRUE)]
    /\ UNCHANGED disk

LoadComprehensive ==
    /\ load.loader = "comprehensive" /\ load.out.end = "pending"
    /\ load' = [load EXCEPT !.out = main_load_data(disk[ALL_DATA_PATH], ALL_DATA_PATH, FALSE)]
    /\ UNCHANGED disk

LoadService ==
    /\ load.loader = "service" /\ load.out.end = "pending"
    /\ load' = [load EXCEPT !.out = load_service_data(disk[SERVICE_DATA_PATH], SERVICE_DATA_PATH)]
    /\ UNCHANGED disk

LoadAllRelation ==
    /\ load.loader = "all_relation" /\ load.out.end = "pending"
    /\ load' = [load EXCEPT !.out = all_relation_load_data(disk[DATA_PATH])]
    /\ UNCHANGED disk

LoadNext ==
    /\ LoadWater \/ LoadComprehensive \/ LoadService \/ LoadAllRelation
    /\ UNCHANGED <<buildVars, appVars>>

\* ---- the files a loader is tried on

Cells(v) == {v, ""}

FullRaw == [security_provider |-> "A", automation_company |-> "B", marketed_solution |-> "X",
            partnership_type |-> "OEM", services_offered |-> "Monitoring", sectors |-> "Water",
            sources |-> "http://x"]

PartnershipRaw ==
    [security_provider : Cells("A"), automation_company : Cells("B"),
     marketed_solution : Cells("X"), partnership_type : Cells("OEM"),
     services_offered : Cells("Monitoring"), sectors : Cells("Water"),
     sources : Cells("http://x")]

WaterRaw(tagCells) ==
    {r @@ [service_tags |-> tg] @@ ("Unnamed: 0" :> "0") : r \in PartnershipRaw, tg \in tagCells}

ServiceRaw ==
    {("Security service" :> a) @@ ("Who provides it" :> b) @@ ("PERA layer(s)" :> c)
        @@ ("Regulation / guidance alignment" :> d) :
        a \in Cells("SOC"), b \in Cells("A, B"), c \in Cells("L3"), d \in Cells("IEC 62443")}

FilesOf(rows, n) == {MissingFile, CorruptFile} \cup {CsvFile(t) : t \in SeqUpTo(rows, n)}

NoDisk == [p \in Paths |-> MissingFile]

NoLoad == disk = NoDisk /\ load = [loader |-> "none", out |-> Pending]

NoBuild == call = <<>> /\ tmp = NoFiles

NoPage == [out |-> <<>>, end |-> "none", exc |-> "", df |-> <<>>, filtered_df |-> <<>>,
           central_node |-> "None", calls |-> <<>>]

NoApp == script = "none" /\ widgets = <<>> /\ page = NoPage /\ rerun = FALSE

LoaderPath(loader) ==
    CASE loader = "water" -> WATER_DATA_PATH
      [] loader = "comprehensive" -> ALL_DATA_PATH
      [] loader = "service" -> SERVICE_DATA_PATH
      [] loader = "all_relation" -> DATA_PATH

LoadInitOn(loader, files) ==
    /\ load = [loader |-> loader, out |-> Pending]
    /\ \E f \in files : disk = [NoDisk EXCEPT ![LoaderPath(loader)] = f]

SomeTags == {<<>>, <<"[", "'a'", "]">>}

\* Every loader, on every file of up to MaxLoadRows rows with any cells missing.
LoadInit ==
    /\ NoBuild /\ NoApp
    /\ \/ LoadInitOn("water", FilesOf(WaterRaw(SomeTags), MaxLoadRows))
       \/ LoadInitOn("comprehensive", FilesOf(PartnershipRaw, MaxLoadRows))
       \/ LoadInitOn("service", FilesOf(ServiceRaw, MaxLoadRows))
       \/ LoadInitOn("all_relation", FilesOf(PartnershipRaw, MaxLoadRows))

SpecLoad == LoadInit /\ [][LoadNext]_vars

TagCells == SeqUpTo(Tokens, MaxCellLen)

\* The water file with any text of up to MaxCellLen tokens in a service_tags
\* cell, alone in its column or above a row with a list of tags.
TagsInit ==
    /\ NoBuild /\ NoApp
    /\ load = [loader |-> "water", out |-> Pending]
    /\ \E tg \in TagCells :
        \E more \in {<<>>, <<FullRaw @@ [service_tags |-> <<"[", "'a'", "]">>] @@ ("Unnamed: 0" :> "1")>>} :
            disk = [NoDisk EXCEPT ![WATER_DATA_PATH] =
                      CsvFile(<<FullRaw @@ [service_tags |-> tg] @@ ("Unnamed: 0" :> "0")>> \o more)]

TagsNext == LoadWater /\ UNCHANGED <<buildVars, appVars>>

SpecTags == TagsInit /\ [][TagsNext]_vars

\* ----------------------------------------------------------- the inputs

BuildNames == {"A", "B"}

Row(sp, ac, sol) ==
    [security_provider |-> sp, automation_company |-> ac, marketed_solution |-> sol,
     partnership_type |-> "OEM", services_offered |-> "Monitoring", sectors |-> "Water",
     sources |-> "http://x"]

BuildRows == {Row(sp, ac, sol) : sp \in BuildNames \cup {NaN}, ac \in BuildNames \cup {NaN},
                                 sol \in {"X", "Y"}}

NewCall(kind, df, central_node_name, filter_type) ==
    [kind |-> kind, df |-> df, central_node_name |-> central_node_name,
     filter_type |-> filter_type, net |-> NewNetwork(FALSE), pc |-> "build",
     ret |-> <<>>, st |-> <<>>]

StarCalls(rows, n) ==
    {NewCall("star", df, c, f) : df \in SeqUpTo(rows, n), c \in BuildNames, f \in FilterTypes}

BipartiteCalls(rows, n) ==
    {NewCall("bipartite", df, "", "") : df \in SeqUpTo(rows, n)}

\* One call of either builder on any rows.
BuildInit ==
    /\ call \in [{1} -> StarCalls(BuildRows, MaxBuildRows) \cup BipartiteCalls(BuildRows, MaxBuildRows)]
    /\ tmp = NoFiles
    /\ NoLoad /\ NoApp

SpecBuild == BuildInit /\ [][BuildNext]_vars

RaceRows == {Row("A", "B", "X"), Row("B", "A", "Y")}

\* Two render passes (two sessions of the app, each run by its own script
\* thread) are in a builder at once, each on its own rows.
RaceInit ==
    /\ call \in [{1, 2} -> StarCalls(RaceRows, MaxRaceRows) \cup BipartiteCalls(RaceRows, MaxRaceRows)]
    /\ tmp = NoFiles
    /\ NoLoad /\ NoApp

SpecRace == RaceInit /\ [][BuildNext]_vars

\* ------------------------------------------------------ the render pass

\* None, as a widget's value (no option to select) or a builder's result.
None == "None"

\* The code points of the names and texts that are sorted.
CodePoints(str) ==
    CASE str = "A" -> <<65>>
      [] str = "S" -> <<83>>
      [] str = "s" -> <<115>>
      [] str = "IDS" -> <<73, 68, 83>>
      [] str = "SOC" -> <<83, 79, 67>>
      [] str = "Not specified" -> <<78, 111, 116, 32, 115, 112, 101, 99, 105, 102, 105, 101, 100>>

\* str.__lt__: by code points, a proper prefix first.
RECURSIVE SeqLess(_, _)
SeqLess(a, b) ==
    IF b = <<>> THEN FALSE
    ELSE IF a = <<>> THEN TRUE
    ELSE IF Head(a) # Head(b) THEN Head(a) < Head(b)
    ELSE SeqLess(Tail(a), Tail(b))

StrLess(a, b) == SeqLess(CodePoints(a), CodePoints(b))

\* sorted() on values of which one is the float NaN and another a str:
\* '<' is not supported between them.
SortRaises(values) == NaN \in Range(values) /\ Len(values) >= 2

RECURSIVE Insert(_, _)
Insert(sortedSeq, x) ==
    IF sortedSeq = <<>> THEN <<x>>
    ELSE IF StrLess(x, Head(sortedSeq)) THEN <<x>> \o sortedSeq
    ELSE <<Head(sortedSeq)>> \o Insert(Tail(sortedSeq), x)

\* sorted(values), where it does not raise
RECURSIVE sorted(_)
sorted(values) ==
    IF Len(values) <= 1 THEN values
    ELSE Insert(sorted(SubSeq(values, 1, Len(values) - 1)), values[Len(values)])

\* ==, on a cell and a selected value: NaN equals nothing, nor does None.
PyEq(a, b) == a = b /\ a # NaN /\ a # None

\* A variant of Filter that also keeps the rows whose value differs in case only.
Upper(str) == IF str = "s" THEN "S" ELSE str

FilterAnyCase(df, col, value) ==
    LET keep == {i \in 1..Len(df) : df[i][col] # NaN /\ value # None
                                     /\ Upper(df[i][col]) = Upper(value)}
        RECURSIVE Pick(_)
        Pick(i) == IF i > Len(df) THEN <<>>
                   ELSE (IF i \in keep THEN <<df[i]>> ELSE <<>>) \o Pick(i + 1)
    IN  Pick(1)

\* df[df[col] == value]
Filter(df, col, value) ==
    LET RECURSIVE Pick(_)
        Pick(i) == IF i > Len(df) THEN <<>>
                   ELSE (IF PyEq(df[i][col], value) THEN <<df[i]>> ELSE <<>>) \o Pick(i + 1)
    IN  Pick(1)

\* What a radio or a selectbox returns: the session's value if it is among
\* the options, else the first option; None when there is no option.
Resolve(value, options) ==
    IF value \in Range(options) THEN value
    ELSE IF options = <<>> THEN None ELSE options[1]

\* bool(value), of a selected value
Truthy(value) == value # None /\ value # ""

ExplorerOptions == <<"Partnerships", "Security Services">>
DatasetOptions == <<"Comprehensive View", "Water Utilities Focus">>
ViewModeOptions == <<"By Company", "Full Network">>
FilterOptions == <<"Security Provider", "Automation Company">>

WidgetKeys == {"explorer", "dataset", "water_view_mode", "filter_type", "provider_select",
               "company_select", "service_select"}

\* The widget values after a pass: those the pass rendered; the state of a
\* widget that was not rendered is dropped.
Rendered(resolved) == [k \in WidgetKeys |-> IF k \in DOMAIN resolved THEN resolved[k] ELSE None]

\* How a pass ends: complete, stopped (st.stop()) or raised (an exception
\* leaves the script).
Pass(out, end, exc, more, resolved, wrote) ==
    [page |-> [out |-> out, end |-> end, exc |-> exc] @@ more @@ NoPage,
     widgets |-> Rendered(resolved),
     wrote |-> wrote]

\* ---- create_partnership_graph / create_full_bipartite_graph as one call
\* emit: "ok", or the step of the try block that fails ("save", "read")

BuilderCall(kind, df, central_node_name, filter_type, emit) ==
    LET net == IF kind = "star" THEN StarNetwork(df, central_node_name, filter_type)
               ELSE BipartiteNetwork(df)
    IN  [kind |-> kind, df |-> df, central_node_name |-> central_node_name,
         filter_type |-> filter_type, net |-> net,
         raised |-> net.exc # "",
         ret |-> IF net.exc = "" /\ emit = "ok" THEN <<Html(net)>> ELSE <<>>,
         st |-> IF net.exc = "" /\ emit # "ok"
                THEN <<Text("error", <<ErrorText(kind)>>)>> ELSE <<>>,
         wrote |-> IF net.exc = "" /\ emit # "save"
                   THEN <<[file |-> FileName(kind), html |-> Html(net)]>> ELSE <<>>]

\* The elements after a builder call: its st.error, or the embedded page.
AfterBuilder(out, b, more, resolved) ==
    IF b.raised
    THEN Pass(out, "raised", "AssertionError", more @@ [calls |-> <<b>>], resolved, <<>>)
    ELSE Pass(out \o b.st \o (IF b.ret # <<>> THEN <<Elem("components.html", "", <<>>, b.ret)>> ELSE <<>>),
              "complete", "", more @@ [calls |-> <<b>>], resolved, b.wrote)

\* ---- the listing of the filtered rows

TagsShown(row) ==
    "service_tags" \in DOMAIN row /\ row.service_tags.t = "list" /\ row.service_tags.v # <<>>

\* '`, `'.join(tags) raises on a tag that is no str
JoinRaises(row) ==
    TagsShown(row) /\ \E j \in 1..Len(row.service_tags.v) : row.service_tags.v[j].t # "str"

Expander(row) ==
    Elem("expander", "",
         <<"**", Fmt(row.automation_company), " & ", Fmt(row.security_provider), "**">>,
         <<Fmt(row.marketed_solution), Fmt(row.partnership_type), Fmt(row.services_offered),
           Fmt(row.sectors)>>
         \o (IF TagsShown(row) THEN <<"Service Tags">> ELSE <<>>)
         \o <<Fmt(row.sources)>>)

\* The expander of a row at whose tags line the script raises.
BrokenExpander(row) ==
    Elem("expander", "",
         <<"**", Fmt(row.automation_company), " & ", Fmt(row.security_provider), "**">>,
         <<Fmt(row.marketed_solution), Fmt(row.partnership_type), Fmt(row.services_offered),
           Fmt(row.sectors)>>)

RECURSIVE Listing(_)
Listing(rows) ==
    IF rows = <<>> THEN [out |-> <<>>, raised |-> FALSE]
    ELSE IF JoinRaises(Head(rows)) THEN [out |-> <<BrokenExpander(Head(rows))>>, raised |-> TRUE]
    ELSE LET rest == Listing(Tail(rows))
         IN  [out |-> <<Expander(Head(rows))>> \o rest.out, raised |-> rest.raised]

InfoPrompt == Text("info", <<"Select a filter from the sidebar to see partnership details.">>)

\* ---- main.py, lines 193-230: the per-entity view

ByCompany(out0, df, w, resolved0, emit) ==
    LET filter_by == Resolve(w.filter_type, FilterOptions)
        out1 == out0 \o <<Text("sidebar.header", <<"Filter Options">>),
                          Elem("sidebar.radio", "filter_type", <<"Filter by:">>, FilterOptions)>>
        r1 == resolved0 @@ [filter_type |-> filter_by]
        col == CenterCol(filter_by)
        key == IF filter_by = "Security Provider" THEN "provider_select" ELSE "company_select"
        values == Unique(Column(df, col))
    IN  IF SortRaises(values)
        THEN Pass(out1, "raised", "TypeError", [df |-> df], r1, <<>>)
        ELSE
        LET options == sorted(values)
            central_node == Resolve(w[key], options)
            r2 == r1 @@ (key :> central_node)
            out2 == out1 \o
                <<Elem("sidebar.selectbox", key,
                       <<IF filter_by = "Security Provider" THEN "Select a Security Provider"
                         ELSE "Select an Automation Company">>, options),
                  Text("header",
                       <<IF filter_by = "Security Provider"
                         THEN "Automation companies partnering with: "
                         ELSE "Security providers partnering with: ", Fmt(central_node)>>)>>
            filtered_df == Filter(df, col, central_node)
            more == [df |-> df, filtered_df |-> filtered_df, central_node |-> central_node]
        IN  IF filtered_df = <<>> \/ ~Truthy(central_node)
            THEN Pass(out2 \o <<InfoPrompt>>, "complete", "", more, r2, <<>>)
            ELSE
            LET listing == Listing(filtered_df)
            IN  IF listing.raised
                THEN Pass(out2 \o listing.out, "raised", "TypeError", more, r2, <<>>)
                ELSE AfterBuilder(out2 \o listing.out
                                    \o <<Text("subheader", <<"Partnership Network Graph">>),
                                         Text("markdown", <<"An interactive graph">>)>>,
                                  BuilderCall("star", filtered_df, central_node, filter_by, emit),
                                  more, r2)

\* ---- main.py, lines 173-230: the Partnerships explorer from the load on

PartnershipsView(out1, loaded, water, w, r1, emit) ==
    IF loaded.end # "returned"
    THEN Pass(out1 \o loaded.st, loaded.end, loaded.exc, <<>>, r1, <<>>)
    ELSE
    LET out2 == out1 \o
            <<Text("title", <<IF water THEN "Water Utilities OT Security Partnerships Explorer"
                              ELSE "Comprehensive OT Security Partnerships Explorer">>),
              Text("markdown", <<"This view shows">>)>>
            \o (IF water THEN <<Elem("sidebar.radio", "water_view_mode", <<"View Mode">>,
                                     ViewModeOptions)>>
                ELSE <<>>)
        view_mode == IF water THEN Resolve(w.water_view_mode, ViewModeOptions) ELSE "By Company"
        r2 == IF water THEN r1 @@ [water_view_mode |-> view_mode] ELSE r1
    IN  IF view_mode = "Full Network"
        THEN AfterBuilder(out2 \o <<Text("header", <<"Full Partnership Network (Water & Wastewater Focus)">>),
                                    Text("markdown", <<"This graph shows">>)>>,
                          BuilderCall("bipartite", loaded.df, "", "", emit),
                          [df |-> loaded.df], r2)
        ELSE ByCompany(out2, loaded.df, w, r2, emit)

\* ---- main.py, lines 165-180: the Partnerships explorer

PartnershipsExplorer(out0, files, w, resolved0, emit) ==
    LET dataset_choice == Resolve(w.dataset, DatasetOptions)
        water == dataset_choice = "Water Utilities Focus"
        file_path == IF water THEN WATER_DATA_PATH ELSE ALL_DATA_PATH
    IN  PartnershipsView(out0 \o <<Text("sidebar.header", <<"Partnership View Options">>),
                                   Elem("sidebar.radio", "dataset",
                                        <<"Select a dataset to explore:">>, DatasetOptions)>>,
                         main_load_data(files[file_path], file_path, water),
                         water, w, resolved0 @@ [dataset |-> dataset_choice], emit)

\* ---- main.py, lines 232-261: the Security Services explorer

\* [p.strip() for p in cell.split(',')]
SplitProviders(cell) ==
    CASE cell = "A, S" -> <<"A", "S">>
      [] cell = "S" -> <<"S">>
      [] OTHER -> <<cell>>

FirstMatch(df, col, value) == Filter(df, col, value)[1]

SecurityServices(out0, files, w, resolved0) ==
    LET out1 == out0 \o <<Text("title", <<"Security Services Explorer">>),
                          Text("markdown", <<"Explore security services">>)>>
        loaded == load_service_data(files[SERVICE_DATA_PATH], SERVICE_DATA_PATH)
    IN  IF loaded.end # "returned"
        THEN Pass(out1 \o loaded.st, loaded.end, loaded.exc, <<>>, resolved0, <<>>)
        ELSE
        LET service_df == loaded.df
            services == sorted(Unique(Column(service_df, "Security service")))
            selected_service == Resolve(w.service_select, services)
            r1 == resolved0 @@ [service_select |-> selected_service]
            out2 == out1 \o <<Text("sidebar.header", <<"Service View Options">>),
                              Elem("sidebar.selectbox", "service_select",
                                   <<"Select a Security Service">>, services)>>
        IN  IF ~Truthy(selected_service)
            THEN Pass(out2, "complete", "", [df |-> service_df], r1, <<>>)
            ELSE
            LET service_details == FirstMatch(service_df, "Security service", selected_service)
            IN  Pass(out2 \o <<Text("header", <<"Details for: ", selected_service>>),
                               Elem("container", "", <<"Who provides it?">>,
                                    SplitProviders(service_details["Who provides it"])),
                               Elem("container", "", <<"Relevant PERA Layer(s)">>,
                                    <<service_details["PERA layer(s)"]>>),
                               Elem("container", "", <<"Regulation / Guidance Alignment">>,
                                    <<service_details["Regulation / guidance alignment"]>>)>>,
                     "complete", "", [df |-> service_df], r1, <<>>)

\* ---- main.py, lines 154-261: one run of the script

MainScript(files, w, emit) ==
    LET explorer_choice == Resolve(w.explorer, ExplorerOptions)
        out0 == <<Text("sidebar.title", <<"OT Security Catalog">>),
                  Text("sidebar.markdown", <<"Created by: **Ahmed Hemida**">>),
                  Text("sidebar.markdown", <<"On Aug 13, 2025">>),
                  Elem("sidebar.radio", "explorer", <<"Select an explorer:">>, ExplorerOptions)>>
        r0 == [explorer |-> explorer_choice]
    IN  IF explorer_choice = "Partnerships"
        THEN PartnershipsExplorer(out0, files, w, r0, emit)
        ELSE SecurityServices(out0, files, w, r0)

\* ---- all_relation.py, lines 24-66: one run of the script

AllRelationScript(files, w) ==
    LET out0 == <<Text("title", <<"Comprehensive OT Security Partnerships Explorer">>),
                  Text("markdown", <<"Use the filters in the sidebar">>)>>
        loaded == all_relation_load_data(files[DATA_PATH])
    IN  IF loaded.end # "returned"
        THEN Pass(out0 \o loaded.st, loaded.end, loaded.exc, <<>>, <<>>, <<>>)
        ELSE
        LET df == loaded.df
            filter_by == Resolve(w.filter_type, FilterOptions)
            r1 == [filter_type |-> filter_by]
            out1 == out0 \o <<Text("sidebar.header", <<"Filter Options">>),
                              Elem("sidebar.radio", "filter_type", <<"Filter by:">>, FilterOptions)>>
            col == CenterCol(filter_by)
            key == IF filter_by = "Security Provider" THEN "provider_select" ELSE "company_select"
            values == Unique(Column(df, col))
        IN  IF SortRaises(values)
            THEN Pass(out1, "raised", "TypeError", [df |-> df], r1, <<>>)
            ELSE
            LET options == sorted(values)
                selected == Resolve(w[key], options)
                r2 == r1 @@ (key :> selected)
                out2 == out1 \o
                    <<Elem("sidebar.selectbox", key,
                           <<IF filter_by = "Security Provider" THEN "Select a Security Provider"
                             ELSE "Select an Automation Company">>, options),
                      Text("header",
                           <<IF filter_by = "Security Provider"
                             THEN "Automation companies partnering with: "
                             ELSE "Security providers partnering with: ", Fmt(selected)>>)>>
                filtered_df == Filter(df, col, selected)
                more == [df |-> df, filtered_df |-> filtered_df, central_node |-> selected]
            IN  IF filtered_df = <<>>
                THEN Pass(out2 \o <<InfoPrompt>>, "complete", "", more, r2, <<>>)
                ELSE Pass(out2 \o Listing(filtered_df).out, "complete", "", more, r2, <<>>)

\* ---- the session: the first run, and a rerun on every interaction

RunScript(w, emit) ==
    IF script = "main.py" THEN MainScript(disk, w, emit) ELSE AllRelationScript(disk, w)

Emits == {"ok", "save", "read"}

\* One run of the script, from its first line to its end, a st.stop() or an
\* exception: the page is what the run emitted.
\* The temporary files after a run that wrote some of them.
Written(wrote) ==
    [f \in DOMAIN tmp |->
        IF \E i \in 1..Len(wrote) : wrote[i].file = f THEN <<wrote[1].html>> ELSE tmp[f]]

Shown(run) ==
    /\ page' = run.page
    /\ widgets' = run.widgets
    /\ tmp' = Written(run.wrote)

RunPass ==
    /\ rerun
    /\ \E emit \in Emits : Shown(RunScript(widgets, emit))
    /\ rerun' = FALSE
    /\ UNCHANGED <<call, loadVars, script>>

\* The widget is on the page and offers the value.
Offers(key, value) ==
    \E i \in 1..Len(page.out) :
        /\ page.out[i].key = key
        /\ value \in Range(page.out[i].data)
        /\ value # widgets[key]

\* The user sets a widget of the page: its value changes and the script is
\* run again.
Interact(key, value) ==
    /\ ~rerun
    /\ Offers(key, value)
    /\ widgets' = [widgets EXCEPT ![key] = value]
    /\ rerun' = TRUE
    /\ UNCHANGED <<buildVars, loadVars, script, page>>

\* The user asks for a rerun with the widgets as they are.
Rerun ==
    /\ ~rerun
    /\ rerun' = TRUE
    /\ UNCHANGED <<buildVars, loadVars, script, page, widgets>>

ChooseExplorer == \E v \in Range(ExplorerOptions) : Interact("explorer", v)
ChooseDataset == \E v \in Range(DatasetOptions) : Interact("dataset", v)
ChooseViewMode == \E v \in Range(ViewModeOptions) : Interact("water_view_mode", v)
ChooseFilterBy == \E v \in Range(FilterOptions) : Interact("filter_type", v)

Select(key) ==
    \E i \in 1..Len(page.out) :
        /\ page.out[i].key = key
        /\ \E v \in Range(page.out[i].data) : Interact(key, v)

SelectProvider == Select("provider_select")
SelectCompany == Select("company_select")
SelectService == Select("service_select")

AppNext ==
    \/ RunPass
    \/ Rerun
    \/ ChooseExplorer
    \/ ChooseDataset
    \/ ChooseViewMode
    \/ ChooseFilterBy
    \/ SelectProvider
    \/ SelectCompany
    \/ SelectService

\* ---- the sessions tried

AppPairs == {<<"S", "A">>, <<"s", "A">>, <<"S", "">>, <<"", "S">>}

AppRaw ==
    {[FullRaw EXCEPT !.security_provider = pr[1], !.automation_company = pr[2]] : pr \in AppPairs}

\* The water-focused file: the same columns plus the index and the tags.
AsWaterRows(rows) ==
    [i \in 1..Len(rows) |->
        rows[i] @@ [service_tags |-> <<"[", "'a'", "]">>] @@ ("Unnamed: 0" :> "0")]

ServiceTable ==
    <<("Security service" :> "SOC") @@ ("Who provides it" :> "A, S") @@ ("PERA layer(s)" :> "L3")
        @@ ("Regulation / guidance alignment" :> ""),
      ("Security service" :> "IDS") @@ ("Who provides it" :> "S") @@ ("PERA layer(s)" :> "L2")
        @@ ("Regulation / guidance alignment" :> "IEC 62443")>>

MaybeFile(rows) == {MissingFile, CsvFile(rows)}

\* A session of main.py or of all_relation.py over partnership rows of which
\* any entity cell may be missing; each file is there or not.
AppInit ==
    /\ NoBuild
    /\ load = [loader |-> "none", out |-> Pending]
    /\ page = NoPage
    /\ rerun = TRUE
    /\ widgets = [k \in WidgetKeys |-> None]
    /\ \E t \in SeqUpTo(AppRaw, MaxAppRows) :
        \/ /\ script = "main.py"
           /\ \E fw \in MaybeFile(AsWaterRows(t)), fa \in MaybeFile(t), fs \in MaybeFile(ServiceTable) :
                disk = [NoDisk EXCEPT ![WATER_DATA_PATH] = fw, ![ALL_DATA_PATH] = fa,
                                      ![SERVICE_DATA_PATH] = fs]
        \/ /\ script = "all_relation.py"
           /\ \E fd \in MaybeFile(t) : disk = [NoDisk EXCEPT ![DATA_PATH] = fd]

Spec == AppInit /\ [][AppNext]_vars

\* ------------------------------------------------ claims on the builders

\* The call has left the loop of add_node / add_edge calls with its graph.
Built(p) == call[p].pc \in {"save", "read", "done"}

\* The partner values of a star call's rows: those of the column opposite to
\* the center's role.
PartnerValues(c) ==
    IF c.filter_type = "Security Provider"
    THEN {c.df[i].automation_company : i \in 1..Len(c.df)}
    ELSE {c.df[i].security_provider : i \in 1..Len(c.df)}

\* C1 as stated: the star graph has 1 + (number of distinct partner values)
\* nodes, a partner equal to the center counted like any other.
C1_AsStated ==
    \A p \in DOMAIN call :
        (Built(p) /\ call[p].kind = "star")
            => Len(call[p].net.nodes) = 1 + Cardinality(PartnerValues(call[p]))

\* C1 amended: the nodes of the star graph are the center and the distinct
\* partner values, each once; a partner equal to the center is the center
\* node itself.  With no rows the graph is the center alone.
C1_StarNodes ==
    \A p \in DOMAIN call :
        (Built(p) /\ call[p].kind = "star")
            => LET c == call[p]
               IN  /\ NodeIds(c.net) = {c.central_node_name} \cup PartnerValues(c)
                   /\ Len(c.net.nodes) = Cardinality({c.central_node_name} \cup PartnerValues(c))
                   /\ c.net.nodes[1].id = c.central_node_name
                   /\ c.net.nodes[1].size = 30
                   /\ (c.df = <<>> => Len(c.net.nodes) = 1)

\* A star graph built from two rows, one of them a self-partnership.
C1_Witness ==
    \E p \in DOMAIN call :
        /\ Built(p) /\ call[p].kind = "star"
        /\ Len(call[p].df) = 2
        /\ call[p].central_node_name \in PartnerValues(call[p])
        /\ Cardinality(PartnerValues(call[p])) = 2

\* C2 as stated: one edge per row, parallel edges kept, each edge joining its
\* row's two entities and carrying its row's tooltip.
C2_AsStated ==
    \A p \in DOMAIN call :
        Built(p)
            => LET c == call[p]
               IN  /\ Len(c.net.edges) = Len(c.df)
                   /\ \A i \in 1..Len(c.df) :
                        /\ i <= Len(c.net.edges)
                        /\ c.net.edges[i].title = EdgeTitle(c.df[i])
                        /\ {c.net.edges[i].from, c.net.edges[i].to} =
                             IF c.kind = "star"
                             THEN {c.central_node_name} \cup
                                  (IF c.filter_type = "Security Provider"
                                   THEN {c.df[i].automation_company}
                                   ELSE {c.df[i].security_provider})
                             ELSE {c.df[i].automation_company, c.df[i].security_provider}

\* C3 as stated: the bipartite graph has one node per distinct automation
\* company plus one per distinct security provider.
C3_AsStated ==
    \A p \in DOMAIN call :
        (Built(p) /\ call[p].kind = "bipartite")
            => Len(call[p].net.nodes) =
                  Cardinality(Range(Column(call[p].df, "automation_company")))
                + Cardinality(Range(Column(call[p].df, "security_provider")))

\* C3 amended: the nodes of the bipartite graph are the distinct names of the
\* two columns taken together, each once; a name in both columns is one node,
\* styled as an Automation Company.  With no rows: no node, no edge.
C3_BipartiteNodes ==
    \A p \in DOMAIN call :
        (Built(p) /\ call[p].kind = "bipartite")
            => LET c == call[p]
                   autos == Range(Column(c.df, "automation_company"))
                   secs == Range(Column(c.df, "security_provider"))
               IN  /\ NodeIds(c.net) = autos \cup secs
                   /\ Len(c.net.nodes) = Cardinality(autos \cup secs)
                   /\ \A i \in 1..Len(c.net.nodes) :
                        c.net.nodes[i].title =
                            IF c.net.nodes[i].id \in autos THEN "Automation Company"
                            ELSE "Security Provider"
                   /\ (c.df = <<>> => c.net.nodes = <<>> /\ c.net.edges = <<>>)

\* A bipartite graph built from rows in which one name is in both columns.
C3_Witness ==
    \E p \in DOMAIN call :
        /\ Built(p) /\ call[p].kind = "bipartite"
        /\ Len(call[p].df) = 2
        /\ Range(Column(call[p].df, "automation_company"))
             \cap Range(Column(call[p].df, "security_provider")) # {}
        /\ Len(call[p].net.nodes) = 2

\* ------------------------------------------------- claims on the loaders

\* C4 as stated: after a load of any dataset variant no cell of a displayed
\* field is missing; each is its original content or "Not specified".
C4_AsStated ==
    load.out.end = "returned"
        => \A i \in 1..Len(load.out.df) :
             \A col \in DOMAIN load.out.df[i] \ {"service_tags"} :
                /\ load.out.df[i][col] # NaN
                /\ load.out.df[i][col] \in
                      {disk[LoaderPath(load.loader)].rows[i][col], "Not specified"}

IsListOfStrings(val) ==
    val.t = "list" /\ \A j \in 1..Len(val.v) : val.v[j].t = "str"

\* C5 as stated: no service_tags cell makes the load of the water-focused
\* dataset raise; every parsed cell is a sequence of strings, and the empty
\* sequence when the cell is missing.
C5_AsStated ==
    (load.loader = "water" /\ load.out.end # "pending")
        => /\ load.out.end = "returned"
           /\ \A i \in 1..Len(load.out.df) :
                /\ IsListOfStrings(load.out.df[i].service_tags)
                /\ (disk[WATER_DATA_PATH].rows[i].service_tags = <<>>
                        => load.out.df[i].service_tags = PyList(<<>>))

\* C6 as stated: a builder's result is determined by its own arguments; a
\* pass that gets a graph back gets the graph built from its own rows.
C6_AsStated ==
    \A p \in DOMAIN call :
        (call[p].pc = "done" /\ call[p].ret # <<>>) => call[p].ret[1] = Html(call[p].net)

\* ------------------------------------------------ claims on the sessions

\* The pass of the page is over and no rerun is asked for: widgets holds the
\* values the widgets of the pass returned.
Settled == ~rerun /\ page.end # "none"

\* The file the pass loads.
SelectedPath ==
    IF script = "all_relation.py"
    THEN "/home/hossamido/Downloads/water partners/ot_partnerships_relations.csv"
    ELSE IF widgets.explorer = "Security Services" THEN "service_to_pera_and_regs.csv"
    ELSE IF widgets.dataset = "Water Utilities Focus" THEN "Water_Utilities-focused_partnerships.csv"
    ELSE "ot_partnerships_relations.csv"

Kinds(out) == [i \in 1..Len(out) |-> out[i].kind]

HasKind(kinds) == \E i \in 1..Len(page.out) : page.out[i].kind \in kinds

\* C7 as stated: with the file of the selected dataset missing, the page of
\* the pass is the error message naming the path and nothing else: no title,
\* header, sidebar control, listing or graph, before or after the load.
C7_AsStated ==
    (Settled /\ disk[SelectedPath].state = "missing")
        => /\ page.end = "stopped"
           /\ \E i \in 1..Len(page.out) :
                /\ page.out[i].kind = "error"
                /\ page.out[i].label = <<"Error: The file was not found at ", SelectedPath>>
           /\ ~HasKind({"title", "sidebar.title", "header", "sidebar.header", "sidebar.radio",
                        "sidebar.selectbox", "expander", "components.html"})

\* What a pass emits before it loads its file.
PreLoadKinds ==
    IF script = "all_relation.py" THEN <<"title", "markdown">>
    ELSE <<"sidebar.title", "sidebar.markdown", "sidebar.markdown", "sidebar.radio">>
         \o (IF widgets.explorer = "Security Services" THEN <<"title", "markdown">>
             ELSE <<"sidebar.header", "sidebar.radio">>)

\* C7 amended: with the file of the selected dataset missing, the pass stops
\* at the load: its last element is the error message naming the path, and
\* nothing follows it (no filter control, header, listing or graph, no
\* builder call).  What the pass emitted before the load stays on the page:
\* in main.py the sidebar title, the credits and the selectors of the
\* explorer and of the dataset (for the services, the page title and its
\* introduction); in all_relation.py the page title and its introduction.
C7_HaltsAtLoad ==
    (Settled /\ disk[SelectedPath].state = "missing")
        => /\ page.end = "stopped"
           /\ Len(page.out) = Len(PreLoadKinds) + 1
           /\ page.out[Len(page.out)].kind = "error"
           /\ page.out[Len(page.out)].label = <<"Error: The file was not found at ", SelectedPath>>
           /\ Kinds(SubSeq(page.out, 1, Len(page.out) - 1)) = PreLoadKinds
           /\ page.calls = <<>>

\* A pass of main.py on the water-focused dataset, chosen by the user, of
\* which the file is missing.
C7_Witness ==
    /\ Settled /\ script = "main.py"
    /\ widgets.explorer = "Partnerships" /\ widgets.dataset = "Water Utilities Focus"
    /\ disk["Water_Utilities-focused_partnerships.csv"].state = "missing"
    /\ page.end = "stopped"

\* C8 as stated: a pass of the per-entity view with a non-empty filtered set
\* never ends in an exception; it shows one block per filtered row, and the
\* graph or an error message in its place.
C8_AsStated ==
    (Settled /\ script = "main.py" /\ page.filtered_df # <<>>)
        => /\ page.end = "complete"
           /\ Cardinality({i \in 1..Len(page.out) : page.out[i].kind = "expander"})
                = Len(page.filtered_df)
           /\ HasKind({"components.html", "error"})

\* The column of the filter dimension, and the key of its selector.
DimensionCol(filter_type) ==
    IF filter_type = "Security Provider" THEN "security_provider" ELSE "automation_company"

OppositeCol(filter_type) ==
    IF filter_type = "Security Provider" THEN "automation_company" ELSE "security_provider"

DimensionKey(filter_type) ==
    IF filter_type = "Security Provider" THEN "provider_select" ELSE "company_select"

\* The rows of the table whose cell of the column is the value, in the order
\* of the table.
RECURSIVE RowsWith(_, _, _)
RowsWith(df, col, value) ==
    IF df = <<>> THEN <<>>
    ELSE (IF Head(df)[col] = value THEN <<Head(df)>> ELSE <<>>) \o RowsWith(Tail(df), col, value)

\* C9 as stated: in every pass of a per-entity view over a loaded table, the
\* selector of the dimension offers the distinct values of the column in
\* lexicographic order, and the filtered rows are the rows of the table with
\* exactly the chosen value, in the order of the table.
C9_AsStated ==
    (Settled /\ page.end # "stopped" /\ widgets.filter_type # None)
        => LET col == DimensionCol(widgets.filter_type)
               key == DimensionKey(widgets.filter_type)
           IN  /\ \E i \in 1..Len(page.out) :
                    /\ page.out[i].key = key
                    /\ Range(page.out[i].data) = {page.df[j][col] : j \in 1..Len(page.df)}
                    /\ \A a, b \in 1..Len(page.out[i].data) :
                          a < b => StrLess(page.out[i].data[a], page.out[i].data[b])
               /\ page.filtered_df = RowsWith(page.df, col, widgets[key])

\* C10: every call of the star builder a pass makes has rows, all of them
\* with the center name in the column of the filter dimension of the pass,
\* and links the center to values of the opposite column; a pass of the
\* per-entity view with no filtered row makes no call and shows the
\* informational prompt, no listing and no graph.
C10_BuilderPrecondition ==
    Settled =>
        /\ \A j \in 1..Len(page.calls) :
              LET b == page.calls[j]
              IN  b.kind = "star"
                    => /\ b.df # <<>>
                       /\ b.filter_type = widgets.filter_type
                       /\ \A i \in 1..Len(b.df) :
                             b.df[i][DimensionCol(b.filter_type)] = b.central_node_name
                       /\ \A e \in 1..Len(b.net.edges) :
                             /\ b.net.edges[e].from = b.central_node_name
                             /\ \E i \in 1..Len(b.df) :
                                   b.net.edges[e].to = b.df[i][OppositeCol(b.filter_type)]
        /\ (script = "main.py" /\ widgets.filter_type # None /\ page.end = "complete"
                /\ page.filtered_df = <<>>)
              => /\ page.calls = <<>>
                 /\ \E i \in 1..Len(page.out) :
                       /\ page.out[i].kind = "info"
                       /\ page.out[i].label =
                            <<"Select a filter from the sidebar to see partnership details.">>
                 /\ ~HasKind({"expander", "subheader", "components.html", "error"})

\* After the user has switched the dimension to the automation companies, a
\* pass calls the star builder with two rows and gets its graph.
C10_Witness ==
    /\ Settled /\ script = "main.py"
    /\ widgets.filter_type = "Automation Company"
    /\ Len(page.calls) = 1 /\ page.calls[1].kind = "star"
    /\ Len(page.calls[1].df) = 2
    /\ Len(page.calls[1].net.edges) = 2
    /\ HasKind({"components.html"})

====
